---- MODULE Spec2Model ----
(***************************************************************************)
(* Model of index.js: the daily growth-activity report.                    *)
(*                                                                         *)
(*   createGrowthReportIssue                                               *)
(*     -> generateGrowthReport                                             *)
(*          -> fetchDevelopers        -> fetchWithRetry (one per page)     *)
(*          -> fetchDeveloperActivity -> fetchWithRetry (one per login)    *)
(*          -> hasGrowthActivityToday                                      *)
(*     -> fetchWithRetry (POST of the issue)                               *)
(*                                                                         *)
(* The program is one chain of async functions, so its state is the        *)
(* position of that chain (pc, ctx), the locals of the functions on the    *)
(* chain, and the clock.  One action is one resumption of the chain: the   *)
(* code that runs between two awaits.  The server and the transport are    *)
(* the environment: every response, body and transport failure is chosen   *)
(* with \E.                                                                *)
(***************************************************************************)
EXTENDS Integers, Sequences, FiniteSets, TLC

----------------------------------------------------------------------------
(* Bounds of the model *)

\* number of non-empty contributor pages the server serves
MaxPages == 2
\* number of contributors on one page
MaxPageLen == 2
\* number of contributors of the repository
MaxDevs == 3
\* number of clock ticks a run may spend in positive rate-limit waits
MaxTicks == 1
\* number of events handed to hasGrowthActivityToday when it is called on its own
MaxEvents == 2

----------------------------------------------------------------------------
(* Program constants *)

\* fetchWithRetry(url, options, retries = 3); no caller passes the argument
retries == 3
\* one second, the safety margin of the wait and the unit of X-RateLimit-Reset
SecondMs == 1000
\* Asia/Seoul is UTC+9 all year
SeoulOffsetMs == 32400000
DayMs == 86400000
\* offset of the zone of the runner, ubuntu-latest: UTC
LocalOffsetMs == 0

----------------------------------------------------------------------------
(* The environment: logins, responses, bodies *)

Logins == {"ann", "bob"}

\* the run starts one second before midnight in Seoul (15:00 UTC)
StartNow == DayMs - SeoulOffsetMs - SecondMs

\* X-RateLimit-Reset of a rate-limit response, in seconds relative to the
\* second of the clock: already passed, or the current second
ResetOffsets == {-2, 0}

\* what the policy of fetchWithRetry reads of a response
Statuses == {200, 201, 403, 500}
Remainings == {"0", "1"}
Responses == [status : Statuses, remaining : Remainings]
\* no response
NoResponse == [status |-> 0, remaining |-> ""]

SeqsUpTo(S, n) == UNION {[1..m -> S] : m \in 0..n}

Max(a, b) == IF a >= b THEN a ELSE b

----------------------------------------------------------------------------
VARIABLES
    pc,          \* where the chain of async functions is suspended
    ctx,         \* the caller of the running fetchWithRetry: list, events, post
    i,           \* fetchWithRetry: the loop index
    calls,       \* network calls made by the current fetchWithRetry call
    waits,       \* waits completed by the current fetchWithRetry call
    resps,       \* responses received by the current fetchWithRetry call
    outcome,     \* how the current fetchWithRetry call settled
    result,      \* the response the current fetchWithRetry call returned
    timer,       \* waitTime handed to setTimeout
    resetAt,     \* X-RateLimit-Reset of the response being waited out, seconds
    inflight,    \* requests handed to the transport and not yet settled
    malformed,   \* the body of the returned response is no JSON
    now,         \* Date.now(), milliseconds
    page,        \* fetchDevelopers: page
    developers,  \* fetchDevelopers: developers, then generateGrowthReport's
    served,      \* the page bodies the server has served, in request order
    asked,       \* the page numbers requested, one per fetchWithRetry call
    k,           \* generateGrowthReport: index of the contributor in the loop
    looked,      \* logins for which fetchDeveloperActivity was called
    report,      \* generateGrowthReport: the lines of report
    activeCount, \* generateGrowthReport: activeCount
    genOutcome,  \* how generateGrowthReport settled
    doc,         \* the value generateGrowthReport returned
    refs,        \* the values of todaySeoul (lines 130-132) in the lookups so far
    posted,      \* the body of the issue request handed to the transport
    cls          \* a call of hasGrowthActivityToday on its own: input and verdict

vars == <<pc, ctx, i, calls, waits, resps, outcome, result, timer, resetAt,
          inflight, malformed, now,
          page, developers, served, asked, k, looked, report, activeCount,
          genOutcome, doc, refs, posted, cls>>

fwVars == <<i, calls, waits, resps, outcome, result, timer, resetAt, inflight,
            malformed>>
listVars == <<page, developers, served, asked>>
genVars == <<k, looked, report, activeCount, genOutcome, doc>>

----------------------------------------------------------------------------
(* fetchWithRetry: the policy *)

\* faulty variant of ResponseOk: only 200 is a success
ResponseOk_Only200(r) == r.status = 200

\* Response.ok of the fetch API: status in the range 200-299
ResponseOk(r) == r.status >= 200 /\ r.status <= 299

\* faulty variant of IsRateLimit: the quota header is not looked at
IsRateLimit_AnyForbidden(r) == r.status = 403

\* line 27: status 403 and X-RateLimit-Remaining equal to '0'
IsRateLimit(r) == r.status = 403 /\ r.remaining = "0"

\* faulty variant of WaitTime: the safety margin is left out
WaitTime_NoMargin(reset, t) == reset * SecondMs - t

\* lines 29-31: resetTime - Date.now() + 1000
WaitTime(reset, t) == reset * SecondMs - t + SecondMs

\* setTimeout treats a delay that is not positive as no delay
TimerDelay(w) == Max(0, w)

\* faulty variant of LoopContinues: one attempt too many
LoopContinues_OffByOne(n) == n <= retries

\* line 16: the loop condition
LoopContinues(n) == n < retries

\* lines 21-39: what one response makes the loop do
Policy(r) ==
    IF ResponseOk(r) THEN "return"
    ELSE IF IsRateLimit(r) THEN "wait"
    ELSE "throw"

\* faulty variant of NextAttempt: a rate-limited attempt is not counted
NextAttempt_NotCounted(n) == n

\* line 34 and the loop header: continue moves to the next attempt
NextAttempt(n) == n + 1

----------------------------------------------------------------------------
(* hasGrowthActivityToday *)

EventTypes == {"PushEvent", "CreateEvent", "ForkEvent"}

\* faulty variant of SeoulWallClock: the reading is not moved to Seoul
SeoulWallClock_NoZone(t) == (t \div SecondMs) * SecondMs

\* lines 130 and 149, toLocaleString('en-US', {timeZone: 'Asia/Seoul'}): what
\* a clock in Seoul reads at instant t, to the second
SeoulWallClock(t) == ((t + SeoulOffsetMs) \div SecondMs) * SecondMs

\* lines 131 and 150, new Date(string): the instant at which the clock of
\* the runner reads w
ParseLocal(w) == w - LocalOffsetMs

\* lines 132-136 and 153-157, new Date(getFullYear(), getMonth(), getDate()):
\* the instant of the last midnight of the runner's zone before t
LocalMidnight(t) == ((t + LocalOffsetMs) \div DayMs) * DayMs - LocalOffsetMs

\* todaySeoul.getTime() and eventDaySeoul.getTime(): the reading in Seoul,
\* read back by the runner and cut to its date
SeoulDay(t) == LocalMidnight(ParseLocal(SeoulWallClock(t)))

\* line 143
IsGrowthEvent(e) == e.type = "PushEvent" \/ e.type = "CreateEvent"

\* lines 128-164, with the instant new Date() gives at line 130
hasGrowthActivityToday(events, t) ==
    \E j \in 1..Len(events) :
        /\ IsGrowthEvent(events[j])
        /\ SeoulDay(events[j].created_at) = SeoulDay(t)

\* the events a body can hold: any type, created just before or at the
\* midnight the run starts next to
Events == [type : EventTypes, created_at : {StartNow, StartNow + SecondMs}]
EventBodies == SeqsUpTo(Events, 1)

----------------------------------------------------------------------------
(* generateGrowthReport: the document *)

Line(t, login, mark, active, total) ==
    [t |-> t, login |-> login, mark |-> mark, active |-> active, total |-> total]

\* line 185
HeaderLine == Line("header", "", "", 0, 0)
\* line 193
ReportLine(login, isActive) ==
    Line("line", login, IF isActive THEN "active" ELSE "inactive", 0, 0)
\* line 197
ErrorLine(login) == Line("line", login, "error", 0, 0)
\* line 203
SummaryLine(active, total) == Line("summary", "", "", active, total)
\* line 210
DegradedDoc == <<Line("degraded", "", "", 0, 0)>>

\* lines 190-193: a lookup that succeeded
LookupSucceeded(rep, login, isActive) == Append(rep, ReportLine(login, isActive))
\* faulty variant of CountActive: every successful lookup is counted
CountActive_Always(n, isActive) == n + 1
\* line 192
CountActive(n, isActive) == IF isActive THEN n + 1 ELSE n
\* faulty variant of LookupFailed: the failure is reported as no activity
LookupFailed_Silent(rep, login) == Append(rep, ReportLine(login, FALSE))

\* lines 194-198: the catch of the loop body
LookupFailed(rep, login) == Append(rep, ErrorLine(login))
\* faulty variant of ReportFailed: the error is thrown again
ReportFailed_Rethrown == [outcome |-> "raised", doc |-> <<>>]
\* faulty variant of ReportFailed: an empty report instead of the message
ReportFailed_EmptyReport ==
    [outcome |-> "returned", doc |-> <<HeaderLine, SummaryLine(0, 0)>>]

\* lines 207-211: the catch of generateGrowthReport
ReportFailed == [outcome |-> "returned", doc |-> DegradedDoc]
\* faulty variant of FinishReport: an empty list is taken for a failure
FinishReport_ZeroFails(rep, active, total) ==
    IF total = 0 THEN ReportFailed
    ELSE [outcome |-> "returned", doc |-> Append(rep, SummaryLine(active, total))]

\* lines 202-205: the participation line is appended and report returned; with
\* no developers the rate is 0/0, toFixed gives "NaN" and nothing is raised
FinishReport(rep, active, total) ==
    [outcome |-> "returned", doc |-> Append(rep, SummaryLine(active, total))]

\* faulty variant of Concat: logins already collected are dropped
Concat_Dedup(devs, data) ==
    devs \o SelectSeq(data, LAMBDA x : \A j \in 1..Len(devs) : devs[j] # x)

\* line 82: developers.concat(data)
Concat(devs, data) == devs \o data
\* faulty variant of IsLastPage: a page that is not full ends the listing
IsLastPage_ShortPage(data) == Len(data) < MaxPageLen
\* line 79
IsLastPage(data) == Len(data) = 0

\* the state in which createGrowthReportIssue, generateGrowthReport and
\* fetchDevelopers have run up to the first call of fetchWithRetry
RunInit ==
    /\ pc = "fetch"
    /\ ctx = "list"
    /\ i = 0
    /\ calls = 0
    /\ waits = 0
    /\ resps = <<>>
    /\ outcome = "running"
    /\ result = NoResponse
    /\ timer = 0
    /\ resetAt = 0
    /\ inflight = 0
    /\ malformed = FALSE
    /\ now = StartNow
    /\ page = 1
    /\ developers = <<>>
    /\ served = <<>>
    /\ asked = <<1>>
    /\ k = 0
    /\ looked = <<>>
    /\ report = <<>>
    /\ activeCount = 0
    /\ genOutcome = "running"
    /\ doc = <<>>
    /\ refs = {}
    /\ posted = <<>>

\* no call of hasGrowthActivityToday on its own
ClsIdle == [events |-> <<>>, ref |-> 0, verdict |-> "idle"]

Init == RunInit /\ cls = ClsIdle

----------------------------------------------------------------------------
(* hasGrowthActivityToday called on its own *)

\* midnight in Seoul, 15:00 UTC
SeoulMidnight == DayMs - SeoulOffsetMs

\* instants a minute before and after midnight in Seoul and in UTC
ClsInstants == {SeoulMidnight - 60 * SecondMs, SeoulMidnight + 60 * SecondMs,
                DayMs - 60 * SecondMs, DayMs + 60 * SecondMs}
ClsEvents == [type : EventTypes, created_at : ClsInstants]

runVars == <<pc, ctx, i, calls, waits, resps, outcome, result, timer, resetAt,
             inflight, malformed, now,
             page, developers, served, asked, k, looked, report, activeCount,
             genOutcome, doc, refs, posted>>

\* the events and the instant of new Date() are drawn, nothing else runs
ClsInit ==
    /\ RunInit
    /\ cls \in [events : SeqsUpTo(ClsEvents, MaxEvents), ref : ClsInstants,
                verdict : {"none"}]

\* lines 128-164
ClsApply ==
    /\ cls.verdict = "none"
    /\ cls' = [cls EXCEPT !.verdict =
                  IF hasGrowthActivityToday(cls.events, cls.ref) THEN "yes" ELSE "no"]
    /\ UNCHANGED runVars

ClassifySpec == ClsInit /\ [][ClsApply]_vars

----------------------------------------------------------------------------
(* fetchWithRetry *)

\* lines 15-16: a caller enters fetchWithRetry
Enter(c) ==
    /\ ctx' = c
    /\ pc' = "fetch"
    /\ i' = 0
    /\ calls' = 0
    /\ waits' = 0
    /\ resps' = <<>>
    /\ outcome' = "running"
    /\ result' = NoResponse
    /\ timer' = 0
    /\ resetAt' = 0
    /\ malformed' = FALSE
    /\ UNCHANGED inflight

\* faulty variant of CallFetch: the call goes on without awaiting the response
CallFetch_NotAwaited ==
    /\ pc = "fetch"
    /\ calls' = calls + 1
    /\ inflight' = inflight + 1
    /\ posted' = IF ctx = "post" THEN doc ELSE posted
    /\ UNCHANGED <<pc, ctx, i, waits, resps, outcome, result, timer, resetAt>>
    /\ UNCHANGED <<malformed, now, listVars, genVars, refs, cls>>

\* lines 17-18: the request is handed to the transport; the request of the
\* issue carries the report as its body (line 246)
CallFetch ==
    /\ pc = "fetch"
    /\ pc' = "await_fetch"
    /\ calls' = calls + 1
    /\ inflight' = inflight + 1
    /\ UNCHANGED <<ctx, i, waits, resps, outcome, result, timer, resetAt, malformed, now>>
    /\ UNCHANGED <<listVars, genVars>>
    /\ posted' = IF ctx = "post" THEN doc ELSE posted
    /\ UNCHANGED <<refs, cls>>

\* the positive waits a run may still spend
TicksLeft == MaxTicks - (now - StartNow) \div SecondMs

\* faulty variant of FetchResolves: the rate limit met on the last attempt is
\* not waited for
FetchResolves_NoLastWait ==
    /\ pc = "await_fetch"
    /\ \E r \in Responses :
        /\ resps' = Append(resps, r)
        /\ inflight' = inflight - 1
        /\ \/ /\ Policy(r) = "return"
              /\ outcome' = "returned"
              /\ result' = r
              /\ pc' = "ret"
              /\ UNCHANGED <<timer, resetAt>>
           \/ /\ Policy(r) = "wait" /\ LoopContinues(NextAttempt(i))
              /\ \E off \in ResetOffsets :
                    /\ resetAt' = now \div SecondMs + off
                    /\ timer' = WaitTime(resetAt', now)
                    /\ TimerDelay(timer') <= TicksLeft * SecondMs
              /\ pc' = "await_timer"
              /\ UNCHANGED <<outcome, result>>
           \/ /\ Policy(r) = "wait" /\ ~LoopContinues(NextAttempt(i))
              /\ outcome' = "RetryExhausted"
              /\ pc' = "ret"
              /\ UNCHANGED <<timer, resetAt, result>>
           \/ /\ Policy(r) = "throw"
              /\ outcome' = "RequestFailed"
              /\ pc' = "ret"
              /\ UNCHANGED <<timer, resetAt, result>>
    /\ UNCHANGED <<ctx, i, calls, waits, malformed, now>>
    /\ UNCHANGED <<listVars, genVars>>
    /\ UNCHANGED <<refs, posted, cls>>

\* lines 18-39: the response arrives
FetchResolves ==
    /\ pc = "await_fetch"
    /\ \E r \in Responses :
        /\ resps' = Append(resps, r)
        /\ inflight' = inflight - 1
        /\ \/ /\ Policy(r) = "return"
              /\ outcome' = "returned"
              /\ result' = r
              /\ pc' = "ret"
              /\ UNCHANGED <<timer, resetAt>>
           \/ /\ Policy(r) = "wait"
              /\ \E off \in ResetOffsets :
                    /\ resetAt' = now \div SecondMs + off
                    /\ timer' = WaitTime(resetAt', now)
                    /\ TimerDelay(timer') <= TicksLeft * SecondMs
              /\ pc' = "await_timer"
              /\ UNCHANGED <<outcome, result>>
           \/ /\ Policy(r) = "throw"
              /\ outcome' = "RequestFailed"
              /\ pc' = "ret"
              /\ UNCHANGED <<timer, resetAt, result>>
    /\ UNCHANGED <<ctx, i, calls, waits, malformed, now>>
    /\ UNCHANGED <<listVars, genVars>>
    /\ UNCHANGED <<refs, posted, cls>>

\* line 18: the transport fails, fetch rejects and nothing catches it here
FetchRejects ==
    /\ pc = "await_fetch"
    /\ inflight' = inflight - 1
    /\ outcome' = "TransportError"
    /\ pc' = "ret"
    /\ UNCHANGED <<ctx, i, calls, waits, resps, result, timer, resetAt, malformed, now>>
    /\ UNCHANGED <<listVars, genVars>>
    /\ UNCHANGED <<refs, posted, cls>>

\* lines 33-34, 16 and 42: the wait is over; waitTime is local to the
\* iteration that computed it
TimerFires ==
    /\ pc = "await_timer"
    /\ now' = now + TimerDelay(timer)
    /\ waits' = waits + 1
    /\ i' = NextAttempt(i)
    /\ IF LoopContinues(i')
          THEN pc' = "fetch" /\ UNCHANGED outcome
          ELSE pc' = "ret" /\ outcome' = "RetryExhausted"
    /\ timer' = 0
    /\ resetAt' = 0
    /\ UNCHANGED <<ctx, calls, resps, result, inflight, malformed>>
    /\ UNCHANGED <<listVars, genVars>>
    /\ UNCHANGED <<refs, posted, cls>>

----------------------------------------------------------------------------
(* createGrowthReportIssue, after generateGrowthReport settled *)

\* faulty variant of ReportSettled: the degraded message is not published
ReportSettled_SkipDegraded(res) ==
    /\ genOutcome' = res.outcome
    /\ doc' = res.doc
    /\ IF res.outcome = "returned" /\ res.doc # DegradedDoc
          THEN Enter("post")
          ELSE pc' = "done" /\ UNCHANGED <<ctx, fwVars>>

\* lines 234-237 when generateGrowthReport returned d, lines 256-258 when it
\* raised
ReportSettled(res) ==
    /\ genOutcome' = res.outcome
    /\ doc' = res.doc
    /\ IF res.outcome = "returned"
          THEN Enter("post")
          ELSE pc' = "done" /\ UNCHANGED <<ctx, fwVars>>

----------------------------------------------------------------------------
(* generateGrowthReport: the loop over developers *)

\* lines 188-190 for the next contributor, or lines 202-205 after the last
Advance(rep, active) ==
    /\ activeCount' = active
    /\ IF k < Len(developers)
          THEN /\ k' = k + 1
               /\ looked' = Append(looked, developers[k + 1])
               /\ report' = rep
               /\ Enter("events")
               /\ UNCHANGED <<genOutcome, doc>>
          ELSE /\ report' = FinishReport(rep, active, Len(developers)).doc
               /\ ReportSettled(FinishReport(rep, active, Len(developers)))
               /\ UNCHANGED <<k, looked>>

----------------------------------------------------------------------------
(* fetchDevelopers *)

\* line 77: the page request returned a response
DevelopersResponse ==
    /\ pc = "ret" /\ ctx = "list" /\ outcome = "returned"
    /\ pc' = "await_json"
    /\ malformed' \in BOOLEAN
    /\ UNCHANGED <<ctx, i, calls, waits, resps, outcome, result, timer, resetAt, inflight>>
    /\ UNCHANGED <<now, listVars, genVars>>
    /\ UNCHANGED <<refs, posted, cls>>

NonEmptyServed == Len(SelectSeq(served, LAMBDA d : Len(d) > 0))

\* lines 77-85, and lines 87-88 and 181-188 after the last page
DevelopersJson ==
    /\ pc = "await_json" /\ ctx = "list" /\ ~malformed
    /\ \E data \in SeqsUpTo(Logins, MaxPageLen) :
        /\ Len(data) > 0 => /\ NonEmptyServed < MaxPages
                            /\ Len(developers) + Len(data) <= MaxDevs
        /\ served' = Append(served, data)
        /\ IF IsLastPage(data)
              THEN /\ Advance(<<HeaderLine>>, 0)
                   /\ UNCHANGED <<page, developers, asked>>
              ELSE /\ developers' = Concat(developers, data)
                   /\ page' = page + 1
                   /\ asked' = Append(asked, page')
                   /\ Enter("list")
                   /\ UNCHANGED genVars
    /\ UNCHANGED now
    /\ UNCHANGED <<refs, posted, cls>>

\* faulty variant of DevelopersFailed: the pages collected so far are returned
DevelopersFailed_Partial ==
    /\ ctx = "list"
    /\ \/ pc = "ret" /\ outcome # "returned"
       \/ pc = "await_json" /\ malformed
    /\ Advance(<<HeaderLine>>, 0)
    /\ UNCHANGED <<now, listVars>>
    /\ UNCHANGED <<refs, posted, cls>>

\* lines 67 and 77 raise: the page request failed, or the body of the page
\* is no JSON; lines 207-211 catch it
DevelopersFailed ==
    /\ ctx = "list"
    /\ \/ pc = "ret" /\ outcome # "returned"
       \/ pc = "await_json" /\ malformed
    /\ ReportSettled(ReportFailed)
    /\ UNCHANGED <<now, listVars, k, looked, report, activeCount>>
    /\ UNCHANGED <<refs, posted, cls>>

----------------------------------------------------------------------------
(* fetchDeveloperActivity and the body of the loop *)

\* line 114: the events request returned a response
ActivityResponse ==
    /\ pc = "ret" /\ ctx = "events" /\ outcome = "returned"
    /\ pc' = "await_json"
    /\ malformed' \in BOOLEAN
    /\ UNCHANGED <<ctx, i, calls, waits, resps, outcome, result, timer, resetAt, inflight>>
    /\ UNCHANGED <<now, listVars, genVars>>
    /\ UNCHANGED <<refs, posted, cls>>

\* lines 114-116 and 191-193
ActivityJson ==
    /\ pc = "await_json" /\ ctx = "events" /\ ~malformed
    /\ \E events \in EventBodies :
        LET isActive == hasGrowthActivityToday(events, now)
        IN  Advance(LookupSucceeded(report, developers[k], isActive),
                    CountActive(activeCount, isActive))
    /\ UNCHANGED <<now, listVars>>
    /\ refs' = refs \cup {SeoulDay(now)}
    /\ UNCHANGED <<posted, cls>>

\* lines 104 and 114 raise: the events request failed, or the body is no
\* JSON; lines 194-198 catch it
ActivityFailed ==
    /\ ctx = "events"
    /\ \/ pc = "ret" /\ outcome # "returned"
       \/ pc = "await_json" /\ malformed
    /\ Advance(LookupFailed(report, developers[k]), activeCount)
    /\ UNCHANGED <<now, listVars>>
    /\ UNCHANGED <<refs, posted, cls>>

----------------------------------------------------------------------------
(* createGrowthReportIssue, after the POST settled *)

\* lines 250-252
IssueCreated ==
    /\ pc = "ret" /\ ctx = "post" /\ outcome = "returned"
    /\ pc' = "done"
    /\ UNCHANGED <<ctx, fwVars, now, listVars, genVars>>
    /\ UNCHANGED <<refs, posted, cls>>

\* faulty variant of IssueFailed: the failure leaves createGrowthReportIssue
IssueFailed_Rethrown ==
    /\ pc = "ret" /\ ctx = "post" /\ outcome # "returned"
    /\ pc' = "raised"
    /\ UNCHANGED <<ctx, fwVars, now, listVars, genVars>>
    /\ UNCHANGED <<refs, posted, cls>>

\* lines 256-258: the catch logs whatever fetchWithRetry raised, and the
\* function ends normally
IssueFailed ==
    /\ pc = "ret" /\ ctx = "post" /\ outcome # "returned"
    /\ pc' = "done"
    /\ UNCHANGED <<ctx, fwVars, now, listVars, genVars>>
    /\ UNCHANGED <<refs, posted, cls>>

----------------------------------------------------------------------------
Next ==
    \/ CallFetch
    \/ FetchResolves
    \/ FetchRejects
    \/ TimerFires
    \/ DevelopersResponse
    \/ DevelopersJson
    \/ DevelopersFailed
    \/ ActivityResponse
    \/ ActivityJson
    \/ ActivityFailed
    \/ IssueCreated
    \/ IssueFailed

Spec == Init /\ [][Next]_vars

\* fetchDevelopers alone: the steps of the run up to the one that leaves the
\* page loop (lines 65-85). The runtime resumes every continuation that can
\* run, every request settles and every timer fires.
ListNext ==
    \/ ctx = "list" /\ CallFetch
    \/ ctx = "list" /\ FetchResolves
    \/ ctx = "list" /\ FetchRejects
    \/ ctx = "list" /\ TimerFires
    \/ ctx = "list" /\ DevelopersResponse
    \/ ctx = "list" /\ DevelopersJson
    \/ ctx = "list" /\ DevelopersFailed

ListSpec == Init /\ [][ListNext]_vars /\ WF_vars(ListNext)

TypeOK ==
    /\ pc \in {"fetch", "await_fetch", "await_timer", "ret", "await_json", "done"}
    /\ ctx \in {"list", "events", "post"}
    /\ i \in 0..retries
    /\ calls \in 0..retries
    /\ waits \in 0..retries
    /\ resps \in SeqsUpTo(Responses, retries)
    /\ outcome \in {"running", "returned", "RequestFailed", "RetryExhausted",
                    "TransportError"}
    /\ result \in Responses \cup {NoResponse}
    /\ inflight \in 0..1
    /\ malformed \in BOOLEAN
    /\ now \in StartNow..(StartNow + MaxTicks * SecondMs)
    /\ page \in 1..(MaxPages + 1)
    /\ Len(developers) <= MaxDevs
    /\ \A j \in 1..Len(developers) : developers[j] \in Logins
    /\ k \in 0..Len(developers)
    /\ activeCount \in 0..Len(developers)
    /\ genOutcome \in {"running", "returned", "raised"}
----------------------------------------------------------------------------
(* The claims, stated on what the responses carry, not on the policy *)

Last(q) == q[Len(q)]

\* a response of the success range
Is2xx(r) == r.status \in 200..299
\* a rate-limit response: 403 with zero remaining quota
IsQuotaExhausted(r) == r.status = 403 /\ r.remaining = "0"
\* the responses of the current call before the j-th were all rate-limit ones
OnlyRateLimitsBefore(j) == \A h \in 1..(j - 1) : IsQuotaExhausted(resps[h])

C2_SuccessReturnsAtOnce ==
    /\ \A j \in 1..Len(resps) :
          Is2xx(resps[j]) =>
              /\ j = Len(resps)
              /\ outcome = "returned"
              /\ result = resps[j]
              /\ calls = j
              /\ waits = j - 1
              /\ pc \in {"ret", "await_json", "done"}
              /\ inflight = 0
    /\ outcome = "returned" =>
          /\ Len(resps) >= 1
          /\ result = Last(resps)
          /\ Is2xx(result)
    /\ outcome # "returned" => result = NoResponse

\* the third attempt got a 201 after two rate-limit responses and returned it
C2_Witness ==
    /\ pc = "ret" /\ outcome = "returned"
    /\ Len(resps) = retries
    /\ result.status = 201
    /\ calls = retries /\ waits = retries - 1

\* C3, the states: a call makes at most 3 network calls, one per attempt, and
\* every attempt before the current one was a rate-limited one followed by a
\* wait.
C3_AttemptsCounted ==
    /\ retries = 3
    /\ calls <= retries
    /\ Len(resps) <= retries
    /\ pc = "fetch" =>
          /\ i < retries
          /\ calls = i /\ waits = i /\ Len(resps) = i
          /\ OnlyRateLimitsBefore(i + 1)
    /\ pc = "await_fetch" => calls = i + 1 /\ waits = i /\ Len(resps) = i
    /\ pc = "await_timer" =>
          /\ calls = i + 1 /\ waits = i /\ Len(resps) = i + 1
          /\ OnlyRateLimitsBefore(i + 2)

\* C3, the steps: a rate-limit response to attempt i+1 starts a wait; the end
\* of the wait counts the attempt, and with an attempt left the next step is
\* the network call of attempt i+2.
C3_AttemptsStep ==
    /\ (pc = "await_fetch" /\ Len(resps') = Len(resps) + 1
           /\ IsQuotaExhausted(Last(resps'))) =>
          pc' = "await_timer" /\ calls' = calls /\ i' = i
    /\ pc = "await_timer" =>
          /\ i' = i + 1 /\ waits' = waits + 1 /\ calls' = calls
          /\ (i + 1 < 3) => pc' = "fetch"
    /\ pc = "fetch" => pc' = "await_fetch" /\ calls' = calls + 1 /\ i' = i

\* C3: a rate-limited attempt counts toward the 3 attempts of a call, and is
\* followed by a wait and then by the next attempt.
C3_RateLimitCounts == []C3_AttemptsCounted /\ [][C3_AttemptsStep]_vars

\* the third attempt of a call is about to start after two rate-limited ones
C3_Witness ==
    /\ pc = "await_fetch" /\ i = 2 /\ calls = 3 /\ waits = 2
    /\ \A j \in 1..2 : IsQuotaExhausted(resps[j])

\* C4: a settled fetchWithRetry call failed with 'Max retries exceeded' if and
\* only if it made 3 attempts and every one received a rate-limit response.
C4_ExhaustedIffAllRateLimited ==
    /\ outcome = "RetryExhausted" =>
          /\ calls = 3 /\ Len(resps) = 3
          /\ \A j \in 1..3 : IsQuotaExhausted(resps[j])
          /\ pc \in {"ret", "done"}
    /\ (outcome # "running" /\ Len(resps) = 3
           /\ \A j \in 1..3 : IsQuotaExhausted(resps[j])) =>
          outcome = "RetryExhausted"
    /\ (Len(resps) = 3 /\ \A j \in 1..3 : IsQuotaExhausted(resps[j])) =>
          pc \in {"await_timer", "ret", "done"}

\* a call has failed with 'Max retries exceeded'
C4_Witness ==
    /\ pc = "ret" /\ outcome = "RetryExhausted"
    /\ ctx = "events"

----------------------------------------------------------------------------
(* The claims about generateGrowthReport and fetchDevelopers *)

\* fetchDevelopers returned: the server served an empty page
ListComplete == Len(served) > 0 /\ Last(served) = <<>>
\* the contributor lines of a document
DocLines(d) == SelectSeq(d, LAMBDA l : l.t = "line")
\* the fixed degraded-service message
IsDegraded(d) == Len(d) = 1 /\ d[1].t = "degraded"
\* a fetchWithRetry call failed
CallFailed == pc = "ret" /\ outcome \in {"RequestFailed", "RetryExhausted", "TransportError"}
\* the pending lookup of contributor k raises: request failure or malformed body
LookupRaises == ctx = "events" /\ (CallFailed \/ (pc = "await_json" /\ malformed))
\* the pending page request of fetchDevelopers raises
ListRaises == ctx = "list" /\ (CallFailed \/ (pc = "await_json" /\ malformed))

RECURSIVE Flatten(_)
Flatten(pages) ==
    IF pages = <<>> THEN <<>> ELSE Head(pages) \o Flatten(Tail(pages))

\* C5: generateGrowthReport never raises: it is either still running or it
\* has returned a document, and once createGrowthReportIssue is past it
\* (publishing, or finished) it has returned one, whatever the list fetch and
\* the lookups did.
C5_NeverRaises ==
    /\ genOutcome \in {"running", "returned"}
    /\ genOutcome = "returned" => Len(doc) >= 1
    /\ (ctx = "post" \/ pc = "done") => genOutcome = "returned"
    /\ genOutcome = "running" => doc = <<>> /\ ctx \in {"list", "events"}

\* the list fetch failed and generateGrowthReport returned the message
C5_Witness ==
    /\ genOutcome = "returned" /\ ctx = "post" /\ pc = "fetch"
    /\ doc = <<[t |-> "degraded", login |-> "", mark |-> "", active |-> 0, total |-> 0]>>
    /\ served = <<>>

\* C6, the states: the report holds one line per contributor looked up so
\* far, in list order; the returned document of a fetched list holds exactly
\* one line per contributor in list order, every contributor was looked up,
\* and the denominator of the summary is the full contributor count.
C6_OneLinePerContributor ==
    /\ (ctx = "events" /\ genOutcome = "running") =>
          /\ k \in 1..Len(developers)
          /\ looked = SubSeq(developers, 1, k)
          /\ Len(report) = k
          /\ report[1].t = "header"
          /\ \A j \in 1..(k - 1) :
                report[j + 1].t = "line" /\ report[j + 1].login = developers[j]
    /\ (genOutcome = "returned" /\ ListComplete) =>
          /\ Len(doc) = Len(developers) + 2
          /\ Len(DocLines(doc)) = Len(developers)
          /\ \A j \in 1..Len(developers) :
                doc[j + 1].t = "line" /\ doc[j + 1].login = developers[j]
          /\ looked = developers
          /\ Last(doc).t = "summary"
          /\ Last(doc).total = Len(developers)

\* C6, the steps: a lookup that raises appends the error-marked line of its
\* contributor and the loop goes on to the next contributor (or, after the
\* last, to the summary); no step of the loop rewrites a line.
C6_LookupStep ==
    /\ LookupRaises =>
          /\ Len(report') >= k + 1
          /\ report'[k + 1] =
                [t |-> "line", login |-> developers[k], mark |-> "error",
                 active |-> 0, total |-> 0]
          /\ activeCount' = activeCount
          /\ developers' = developers
          /\ k < Len(developers) =>
                /\ k' = k + 1
                /\ looked' = Append(looked, developers[k + 1])
                /\ ctx' = "events" /\ pc' = "fetch"
                /\ genOutcome' = "running"
          /\ k = Len(developers) =>
                /\ genOutcome' = "returned"
                /\ doc' = report'
    /\ ctx = "events" =>
          /\ Len(report') >= Len(report)
          /\ SubSeq(report', 1, Len(report)) = report

\* C6: a failed lookup does not abort the loop of generateGrowthReport.
C6_FailureIsolated == []C6_OneLinePerContributor /\ [][C6_LookupStep]_vars

\* three contributors, the lookup of the second failed: three lines, the
\* second error-marked, the others not, and a denominator of 3
C6_Witness ==
    /\ pc = "done" /\ Len(developers) = 3 /\ Len(doc) = 5
    /\ doc[2].mark # "error" /\ doc[3].mark = "error" /\ doc[4].mark # "error"
    /\ doc[5].total = 3

\* C7, the states: when generateGrowthReport returned without the list
\* having been fetched to its empty page, the document is the degraded
\* message alone and no contributor was looked up; no lookup starts while
\* the list is being fetched.
C7_DegradedAlone ==
    /\ (genOutcome = "returned" /\ ~ListComplete) =>
          /\ IsDegraded(doc)
          /\ \A j \in 1..Len(doc) : doc[j].t \notin {"line", "summary"}
          /\ looked = <<>>
          /\ k = 0
    /\ ctx = "list" => looked = <<>> /\ genOutcome = "running"
    /\ (ctx = "events" /\ calls > 0) => ListComplete

\* C7, the steps: a page request that raises, on whatever page, makes
\* generateGrowthReport return the degraded message.
C7_ListStep ==
    ListRaises =>
        /\ genOutcome' = "returned"
        /\ IsDegraded(doc')
        /\ looked' = <<>>
        /\ ctx' = "post"

\* C7: a failed list fetch collapses the report to the degraded message.
C7_ListFailureDegrades == []C7_DegradedAlone /\ [][C7_ListStep]_vars

\* page 1 was fetched, page 2 failed, the degraded message was returned
C7_Witness ==
    /\ genOutcome = "returned" /\ IsDegraded(doc)
    /\ Len(served) = 1 /\ Len(developers) > 0 /\ page = 2

\* C8: pages are requested as 1, 2, 3, ...; an empty page is the last page
\* served; developers is the concatenation of the served pages in order,
\* duplicates kept; after n non-empty pages and the empty one, n+1 page
\* requests were made and succeeded, and no more.
C8_Pagination ==
    /\ \A j \in 1..Len(asked) : asked[j] = j
    /\ page = Len(asked)
    /\ \A j \in 1..(Len(served) - 1) : served[j] # <<>>
    /\ developers = Flatten(served)
    /\ ListComplete =>
          /\ Len(asked) = Len(served)
          /\ Len(served) = NonEmptyServed + 1
          /\ ctx # "list"
    /\ ~ListComplete => Len(asked) = Len(served) + 1

\* pages <<ann, bob>>, <<ann>>, <<>>: three requests, three items, ann twice
C8_Witness ==
    /\ served = << <<"ann", "bob">>, <<"ann">>, <<>> >>
    /\ developers = <<"ann", "bob", "ann">>
    /\ asked = <<1, 2, 3>>
    /\ ctx = "events"

\* C9, the states: a page request makes at most 3 network calls; once
\* fetchDevelopers was left without the empty page, no further page is
\* requested and nothing collected is used.
C9_NothingReturned ==
    /\ ctx = "list" => calls <= 3
    /\ (ctx # "list" /\ ~ListComplete) =>
          /\ Len(asked) = Len(served) + 1
          /\ k = 0
          /\ looked = <<>>
          /\ DocLines(doc) = <<>>
          /\ genOutcome = "returned"

\* C9, the steps: a rate-limited page request waits and retries the same
\* page; a page request that fails ends fetchDevelopers: no page is
\* requested and the loop over developers is not entered.
C9_PageStep ==
    /\ (ctx = "list" /\ pc = "await_timer") =>
          /\ ctx' = "list" /\ asked' = asked /\ page' = page
          /\ developers' = developers
          /\ (i + 1 < 3) => pc' = "fetch"
    /\ (ctx = "list" /\ CallFailed) =>
          /\ ctx' = "post"
          /\ asked' = asked /\ page' = page
          /\ k' = 0 /\ looked' = <<>> /\ report' = <<>>
          /\ DocLines(doc') = <<>>

\* C9: a failed page request propagates out of fetchDevelopers.
C9_FailurePropagates == []C9_NothingReturned /\ [][C9_PageStep]_vars

\* two pages were collected, the third request failed, the run ended with
\* none of the three logins in the document
C9_Witness ==
    /\ pc = "done" /\ Len(served) = 2 /\ Len(developers) = 3
    /\ asked = <<1, 2, 3>> /\ ~ListComplete
    /\ DocLines(doc) = <<>>

\* C10: a call that failed on a server error (5xx) or on a network error did
\* so only after all its attempts: it retried instead of throwing at once.
C10_ServerErrorsRetried ==
    (/\ outcome \in {"RequestFailed", "TransportError"}
     /\ (outcome = "TransportError" \/ Last(resps).status >= 500)) =>
        calls = retries

----------------------------------------------------------------------------
(* The claims about the wait, the order of the requests and the classifier *)

\* the suspension the rate-limit response asks for: max(0, T*1000 - now + 1000)
Suspension(T, t) ==
    IF T * 1000 - t + 1000 > 0 THEN T * 1000 - t + 1000 ELSE 0

\* C11, the states: a pending wait follows a rate-limit response and was
\* asked for T*1000 - now + 1000 milliseconds, T the reset time of the response.
C11_WaitPending ==
    pc = "await_timer" =>
        /\ IsQuotaExhausted(Last(resps))
        /\ timer = resetAt * 1000 - now + 1000
        /\ outcome = "running"

\* C11, the steps: a rate-limit response always starts a wait; the wait ends
\* after max(0, T*1000 - now + 1000) milliseconds, also when that is zero,
\* and raises nothing: what follows is the next attempt or, after the last
\* attempt, 'Max retries exceeded'.
C11_WaitStep ==
    /\ (pc = "await_fetch" /\ Len(resps') = Len(resps) + 1
           /\ IsQuotaExhausted(Last(resps'))) =>
          pc' = "await_timer"
    /\ pc = "await_timer" =>
          /\ now' - now = Suspension(resetAt, now)
          /\ waits' = waits + 1
          /\ \/ pc' = "fetch" /\ outcome' = "running" /\ i' < 3
             \/ pc' = "ret" /\ outcome' = "RetryExhausted" /\ i' = 3

\* C11: on a rate-limit response with reset time T the call suspends for
\* max(0, T*1000 - now + 1000) milliseconds before its next attempt.
C11_SuspendsUntilReset == []C11_WaitPending /\ [][C11_WaitStep]_vars

\* two waits are over, one of a second and one whose duration was not
\* positive, and the third attempt is about to start
C11_Witness ==
    /\ pc = "fetch" /\ i = 2 /\ waits = 2
    /\ now = StartNow + 1000
    /\ outcome = "running"

\* C12, the states: at most one request is in flight, and only while the
\* chain awaits it; no lookup and no issue request before the list is
\* complete; lookups follow the list order; the issue request comes after
\* the last lookup.
C12_OneAtATime ==
    /\ inflight \in {0, 1}
    /\ inflight = 1 <=> pc = "await_fetch"
    /\ ctx = "list" => looked = <<>> /\ posted = <<>>
    /\ ctx = "events" =>
          /\ ListComplete
          /\ looked = SubSeq(developers, 1, k)
          /\ posted = <<>>
    /\ posted # <<>> =>
          /\ ctx = "post"
          /\ genOutcome = "returned"
          /\ ListComplete => looked = developers

\* C12, the steps: the phases follow each other as list, lookups, issue; a
\* request starts only when none is in flight; the lookup of the next
\* contributor starts only when the call before it has settled.
C12_OrderStep ==
    /\ ctx' # ctx =>
          /\ <<ctx, ctx'>> \in {<<"list", "events">>, <<"list", "post">>,
                                <<"events", "post">>}
          /\ inflight = 0
          /\ pc \in {"ret", "await_json"}
    /\ looked' # looked =>
          /\ Len(looked) < Len(developers)
          /\ looked' = Append(looked, developers[Len(looked) + 1])
          /\ inflight = 0
          /\ pc \in {"ret", "await_json"}
    /\ inflight' > inflight => inflight = 0 /\ pc = "fetch"

\* C12: no two requests are in flight at once and the order of the requests
\* is fixed: pages, then one contributor after the other, then the issue.
C12_Sequential == []C12_OneAtATime /\ [][C12_OrderStep]_vars

\* the issue request is in flight after both contributors were looked up
C12_Witness ==
    /\ pc = "await_fetch" /\ ctx = "post" /\ inflight = 1
    /\ Len(developers) = 2 /\ looked = developers
    /\ posted = doc

\* the calendar date in Asia/Seoul (UTC+9) of an instant, as a day number
SeoulDate(t) == (t + 9 * 3600 * 1000) \div (24 * 3600 * 1000)
\* 23:59 in Seoul, and 15:01 UTC of the same UTC day: 00:01 of the next day
\* in Seoul
BoundaryRef == 15 * 3600 * 1000 - 60 * 1000
BoundaryEvent == 15 * 3600 * 1000 + 60 * 1000

\* C13: hasGrowthActivityToday answers true exactly when some event is a
\* PushEvent or a CreateEvent created on the Seoul calendar date of the
\* reference instant; false for no events, false for events of other types
\* only, and false for a push at 15:01 UTC judged at 23:59 Seoul time of the
\* day before.
C13_Classifier ==
    cls.verdict \in {"yes", "no"} =>
        /\ cls.verdict = "yes" <=>
              \E j \in 1..Len(cls.events) :
                  /\ cls.events[j].type \in {"PushEvent", "CreateEvent"}
                  /\ SeoulDate(cls.events[j].created_at) = SeoulDate(cls.ref)
        /\ cls.events = <<>> => cls.verdict = "no"
        /\ (\A j \in 1..Len(cls.events) : cls.events[j].type = "ForkEvent") =>
              cls.verdict = "no"
        /\ (/\ cls.ref = BoundaryRef
            /\ cls.events = <<[type |-> "PushEvent", created_at |-> BoundaryEvent]>>) =>
              cls.verdict = "no"

\* the push of 15:01 UTC was judged at 23:59 Seoul time and not counted
C13_Witness ==
    /\ cls.ref = BoundaryRef
    /\ cls.events = <<[type |-> "PushEvent", created_at |-> BoundaryEvent]>>
    /\ cls.verdict = "no"

\* C14: when the first page of contributors is empty, generateGrowthReport
\* returns, without raising, a document that is not the degraded message and
\* holds no contributor line, and no events request is made.
C14_NoContributors ==
    served = << <<>> >> =>
        /\ genOutcome = "returned"
        /\ developers = <<>>
        /\ Len(doc) >= 1
        /\ ~IsDegraded(doc)
        /\ DocLines(doc) = <<>>
        /\ looked = <<>>
        /\ ctx = "post"

\* the run of a repository without contributors is over; the document is the
\* heading and the participation line of 0 out of 0
C14_Witness ==
    /\ pc = "done" /\ served = << <<>> >>
    /\ Len(doc) = 2 /\ doc[1].t = "header"
    /\ doc[2].t = "summary" /\ doc[2].active = 0 /\ doc[2].total = 0

\* the POST attempts of the run that were answered with a 2xx status
IssuesCreated == {j \in 1..Len(resps) : ctx = "post" /\ Is2xx(resps[j])}

\* C15: createGrowthReportIssue never ends by raising; it ends only after the
\* POST call has settled, the POST is attempted at most `retries` times, and
\* at most one attempt of a run is answered with a 2xx status.
C15_NeverPropagates ==
    /\ pc # "raised"
    /\ ctx = "post" => calls <= 3 /\ Len(resps) <= calls
    /\ LET n == Cardinality(IssuesCreated)
       IN  /\ n <= 1
           /\ pc = "done" =>
                 /\ ctx = "post" /\ outcome # "running"
                 /\ outcome = "returned" <=> n = 1

\* the run ended normally although the report was the degraded message and
\* the POST was rate limited on each of its three attempts
C15_Witness ==
    /\ pc = "done" /\ ctx = "post"
    /\ IsDegraded(doc)
    /\ outcome = "RetryExhausted" /\ calls = 3

\* the run ended normally after the transport failed on the POST
C15_WitnessTransport ==
    /\ pc = "done" /\ ctx = "post" /\ outcome = "TransportError"

\* C16: all lookups of one generateGrowthReport run are classified against
\* the same Asia/Seoul calendar date (refs holds the todaySeoul computed
\* in each hasGrowthActivityToday call of the run).
C16_SameReferenceDate ==
    \A a, b \in refs : a = b

\* the number of contributor lines of a document that carry mark m
MarkCount(d, m) == Len(SelectSeq(d, LAMBDA l : l.t = "line" /\ l.mark = m))

\* a contributor line marked active, inactive or error
IsMarkedLine(l) == l.t = "line" /\ l.mark \in {"active", "inactive", "error"}

\* C17: during the loop activeCount is the number of active lines appended so
\* far and the active, inactive and error lines together are the contributors
\* processed so far; the participation line of the returned document carries
\* that count, between 0 and the number of contributors.
C17_ActiveCount ==
    /\ (ctx = "events" /\ genOutcome = "running") =>
          /\ activeCount = MarkCount(report, "active")
          /\ Len(report) = k
          /\ \A j \in 2..k : IsMarkedLine(report[j])
    /\ (genOutcome = "returned" /\ ~IsDegraded(doc)) =>
          LET n == Len(doc)
          IN  /\ doc[n].t = "summary"
              /\ doc[n].active = MarkCount(doc, "active")
              /\ doc[n].total = Len(developers)
              /\ n = Len(developers) + 2
              /\ \A j \in 2..(n - 1) : IsMarkedLine(doc[j])
              /\ 0 <= doc[n].active /\ doc[n].active <= doc[n].total

\* a report of three contributors: one active, one inactive, one whose
\* lookup failed; one of three is counted
C17_Witness ==
    /\ genOutcome = "returned" /\ Len(doc) = 5
    /\ MarkCount(doc, "active") = 1
    /\ MarkCount(doc, "inactive") = 1
    /\ MarkCount(doc, "error") = 1
    /\ Last(doc).active = 1 /\ Last(doc).total = 3

\* C18, the loop has no bound of its own: a non-empty page is always followed
\* by the request of the next page, and fetchDevelopers is left only by an
\* empty page or by a failure of the pending page request.
C18_PageStep ==
    /\ (served' # served /\ Last(served') # <<>>) =>
          ctx' = "list" /\ pc' = "fetch" /\ page' = page + 1
    /\ (ctx = "list" /\ ctx' # "list") =>
          \/ served' # served /\ Last(served') = <<>>
          \/ ListRaises

\* C18: when the server serves an empty page or a failing response at some
\* page and every request and wait completes, fetchDevelopers terminates;
\* until then every non-empty page makes it ask for one more.
C18_Terminates == <>(ctx # "list") /\ [][C18_PageStep]_vars

\* fetchDevelopers returned after as many non-empty pages as the server had
C18_Witness ==
    /\ ctx = "events" /\ ListComplete
    /\ Len(served) = MaxPages + 1 /\ page = MaxPages + 1

\* the rate-limit responses the current fetchWithRetry call has received
RateLimited == {j \in 1..Len(resps) : IsQuotaExhausted(resps[j])}

\* C19: the waits one fetchWithRetry call has performed are as many as the
\* rate-limit responses it received (one less while the wait for the latest
\* is pending); 'Max retries exceeded' is raised only after three waits,
\* the last of them after the third and last attempt.
C19_WaitPerRateLimit ==
    /\ IF pc = "await_timer"
          THEN /\ IsQuotaExhausted(Last(resps))
               /\ waits = Cardinality(RateLimited) - 1
               /\ outcome = "running"
          ELSE waits = Cardinality(RateLimited)
    /\ outcome = "RetryExhausted" => waits = 3 /\ calls = 3

\* the third attempt was rate limited and its wait is pending: no attempt is
\* left, yet the call has not raised
C19_Witness ==
    /\ pc = "await_timer" /\ calls = 3 /\ waits = 2
    /\ Cardinality(RateLimited) = 3 /\ outcome = "running"

\* the call raised 'Max retries exceeded' after its third wait
C19_WitnessRaised ==
    /\ pc = "ret" /\ outcome = "RetryExhausted" /\ waits = 3 /\ calls = 3

\* C20: once generateGrowthReport has returned, whatever it returned, the
\* run is in the POST call: the request is the next step or it has been
\* issued with the returned document as its body; no run ends without it.
C20_AlwaysPublished ==
    /\ genOutcome = "returned" =>
          /\ ctx = "post"
          /\ \/ pc = "fetch" /\ calls = 0
             \/ calls >= 1 /\ posted = doc
    /\ pc = "done" =>
          genOutcome = "returned" /\ calls >= 1 /\ posted = doc

\* the contributor list could not be fetched, and the issue was created with
\* the degraded message as its body
C20_Witness ==
    /\ pc = "done" /\ outcome = "returned" /\ Is2xx(result)
    /\ IsDegraded(posted) /\ ~ListComplete

====
